---- MODULE Spec2Model ----
(***************************************************************************)
(* A model of Mopy/mash/wtexparser.py: the wtex Parser (heading tree, one  *)
(* text-line tree per heading, the level-aware insert), the depth-first    *)
(* flatteners, and the inline text parser.  parseText is modelled twice:   *)
(* as an operator, which the line parser uses, and step by step with its   *)
(* call stack, for the properties of its loop and its recursion.           *)
(*                                                                         *)
(* A string is a sequence of one-character strings.  Objects live in an    *)
(* arena `nodes`; an object reference is its index, None is 0.  An object  *)
(* has exactly the attributes its constructor sets, so a record's DOMAIN   *)
(* is the object's __dict__.                                               *)
(***************************************************************************)
EXTENDS Integers, Sequences, FiniteSets, TLC

\* ---------------------------------------------------------------- bounds
\* lines of one document
MaxLines == 4
\* leading '=' characters of a heading line
MaxEq == 3
\* leading blanks of a bullet line
MaxIndent == 2
\* characters of the arbitrary line of SpecLine
MaxLineLen == 4
\* largest maxLevel handed to the flatteners
MaxLevelArg == 3
\* tokens of a text handed to parseText
MaxTokens == 5
\* tokens of a text whose parseText run is followed to its end
MaxRunTokens == 3

\* ---------------------------------------------------------------- strings
\* the reference None (no object)
None == 0
\* the value None where a string is expected (an unmatched regex group)
NoneStr == <<"None">>

\* characters \s matches, among those the model writes
Whitespace == {" "}

\* characters of the arbitrary line of SpecLine
Alphabet == {"=", " ", "*", "a"}

RECURSIVE CountLeadingIn(_, _)
\* length of the longest prefix of s made of characters in cs
CountLeadingIn(s, cs) ==
  IF s = <<>> \/ Head(s) \notin cs THEN 0 ELSE 1 + CountLeadingIn(Tail(s), cs)

RECURSIVE CountLeadingNotIn(_, _)
\* length of the longest prefix of s made of characters not in cs
CountLeadingNotIn(s, cs) ==
  IF s = <<>> \/ Head(s) \in cs THEN 0 ELSE 1 + CountLeadingNotIn(Tail(s), cs)

RECURSIVE CountTrailingIn(_, _)
CountTrailingIn(s, cs) ==
  IF s = <<>> \/ s[Len(s)] \notin cs THEN 0
  ELSE 1 + CountTrailingIn(SubSeq(s, 1, Len(s) - 1), cs)

Drop(s, n) == SubSeq(s, n + 1, Len(s))
Take(s, n) == SubSeq(s, 1, n)

\* str.strip()
strip(s) ==
  LET t == Drop(s, CountLeadingIn(s, Whitespace))
  IN  Take(t, Len(t) - CountTrailingIn(t, Whitespace))

\* str.startswith(p)
startswith(s, p) == Len(s) >= Len(p) /\ Take(s, Len(p)) = p

\* str.replace(c, '') for a one-character c
RECURSIVE removeChar(_, _)
removeChar(s, c) ==
  IF s = <<>> THEN <<>>
  ELSE IF Head(s) = c THEN removeChar(Tail(s), c)
  ELSE <<Head(s)>> \o removeChar(Tail(s), c)

\* Python truth of an optional string: None and '' are false
Truthy(x) == x # NoneStr /\ x # <<>>

\* Python's `a or b` on optional strings
Or(a, b) == IF Truthy(a) THEN a ELSE b

\* ---------------------------------------------------------------- Text
\* Text.__init__: a span of text, neither bold nor italic, no href attribute
Text(text) == [text |-> text, bold |-> FALSE, italic |-> FALSE]

\* mergeWith with line 109 as `self.__dict__[name] = val`: the attributes of
\* `other` overwrite those of `self`
mergeWith_overwrites(self, other) ==
  IF "href" \in DOMAIN other
  THEN [text |-> other.text, bold |-> other.bold, italic |-> other.italic,
        href |-> other.href]
  ELSE IF "href" \in DOMAIN self
  THEN [text |-> other.text, bold |-> other.bold, italic |-> other.italic,
        href |-> self.href]
  ELSE [text |-> other.text, bold |-> other.bold, italic |-> other.italic]

\* Text.mergeWith(self, text): every attribute of `other` is or-ed into the
\* attribute of the same name of `self`, or copied when `self` has none
mergeWith(self, other) ==
  LET merged == [text   |-> Or(self.text, other.text),
                 bold   |-> self.bold \/ other.bold,
                 italic |-> self.italic \/ other.italic]
      withHref(h) == [text |-> merged.text, bold |-> merged.bold,
                      italic |-> merged.italic, href |-> h]
  IN  IF "href" \in DOMAIN self
      THEN IF "href" \in DOMAIN other
           THEN withHref(Or(self.href, other.href))
           ELSE withHref(self.href)
      ELSE IF "href" \in DOMAIN other THEN withHref(other.href) ELSE merged

\* ---------------------------------------------------------------- the regex of parseText
\* the two-character marker m stands at position i of s
MarkerAt(s, i, m) == i >= 1 /\ i + 1 <= Len(s) /\ s[i] = m[1] /\ s[i + 1] = m[2]

SetMax(S) == CHOOSE x \in S : \A y \in S : y <= x
SetMin(S) == CHOOSE x \in S : \A y \in S : x <= y

\* m(.*)m matched at the start of s: [ok, group, len]; .* is greedy, so the
\* closing marker is the last one in s
FormattingMatch(s, m) ==
  LET closers == {j \in 3..(Len(s) - 1) : MarkerAt(s, j, m)}
  IN  IF MarkerAt(s, 1, m) /\ closers # {}
      THEN [ok |-> TRUE, group |-> SubSeq(s, 3, SetMax(closers) - 1),
            len |-> SetMax(closers) + 1]
      ELSE [ok |-> FALSE, group |-> NoneStr, len |-> 0]

\* \[\[([^\|]*)\|([^\]]*)\]\] matched at the start of s: [ok, href, text, len]
PipedLinkMatch(s) ==
  LET bars == {j \in 3..Len(s) : s[j] = "|"}
      p    == SetMin(bars)
      ends == {j \in (p + 1)..Len(s) : s[j] = "]"}
      q    == SetMin(ends)
  IN  IF MarkerAt(s, 1, <<"[", "[">>) /\ bars # {} /\ ends # {}
         /\ MarkerAt(s, q, <<"]", "]">>)
      THEN [ok |-> TRUE, href |-> SubSeq(s, 3, p - 1),
            text |-> SubSeq(s, p + 1, q - 1), len |-> q + 1]
      ELSE [ok |-> FALSE, href |-> NoneStr, text |-> NoneStr, len |-> 0]

\* \[\[([^\]]*)\]\] matched at the start of s: [ok, group, len]
BareLinkMatch(s) ==
  LET ends == {j \in 3..Len(s) : s[j] = "]"}
      q    == SetMin(ends)
  IN  IF MarkerAt(s, 1, <<"[", "[">>) /\ ends # {} /\ MarkerAt(s, q, <<"]", "]">>)
      THEN [ok |-> TRUE, group |-> SubSeq(s, 3, q - 1), len |-> q + 1]
      ELSE [ok |-> FALSE, group |-> NoneStr, len |-> 0]

\* the openers the last alternative stops in front of
Openers == {<<"*", "*">>, <<"_", "_">>, <<"~", "~">>, <<"[", "[">>}

\* (.*?(?=\*\*|__|~~|\[\[|$)): the shortest prefix of s that ends in front of
\* an opener or at the end of s; it always matches
OtherwiseMatch(s) ==
  LET stops == {k \in 0..Len(s) :
                  k = Len(s) \/ \E m \in Openers : MarkerAt(s, k + 1, m)}
  IN  Take(s, SetMin(stops))

\* the groups (bold, italic, both, linkHref, linkText, onlyLinkText, otherwise)
\* of a match and the length of match.group(0)
Groups(b, i, o, lh, lt, ol, ot, n) ==
  [bold |-> b, italic |-> i, both |-> o, linkHref |-> lh, linkText |-> lt,
   onlyLinkText |-> ol, otherwise |-> ot, len |-> n]

\* the alternatives of the regex in their order: the first that matches
\* decides the groups, the others stay None
firstAlternative(f1, f2, f3, l1, l2, ot) ==
  IF f1.ok
  THEN Groups(f1.group, NoneStr, NoneStr, NoneStr, NoneStr, NoneStr, NoneStr, f1.len)
  ELSE IF f2.ok
  THEN Groups(NoneStr, f2.group, NoneStr, NoneStr, NoneStr, NoneStr, NoneStr, f2.len)
  ELSE IF f3.ok
  THEN Groups(NoneStr, NoneStr, f3.group, NoneStr, NoneStr, NoneStr, NoneStr, f3.len)
  ELSE IF l1.ok
  THEN Groups(NoneStr, NoneStr, NoneStr, l1.href, l1.text, NoneStr, NoneStr, l1.len)
  ELSE IF l2.ok
  THEN Groups(NoneStr, NoneStr, NoneStr, NoneStr, NoneStr, l2.group, NoneStr, l2.len)
  ELSE Groups(NoneStr, NoneStr, NoneStr, NoneStr, NoneStr, NoneStr, ot, Len(ot))

\* re.match(regex, text)
regexMatch(s) ==
  firstAlternative(FormattingMatch(s, <<"_", "_">>), FormattingMatch(s, <<"~", "~">>),
                   FormattingMatch(s, <<"*", "*">>), PipedLinkMatch(s),
                   BareLinkMatch(s), OtherwiseMatch(s))

\* matchSpan with line 316 as `t.bold = both != None`: ** makes bold only
matchSpan_bothIsBold(m, matchText) ==
  LET bold   == m.bold # NoneStr
      italic == m.italic # NoneStr
      b2     == IF ~(bold \/ italic) THEN m.both # NoneStr ELSE bold
      href   == Or(m.linkHref, m.onlyLinkText)
  IN  IF Truthy(m.linkHref) \/ Truthy(m.onlyLinkText)
      THEN [text |-> matchText, bold |-> b2, italic |-> italic,
            href |-> IF href = <<"#">> THEN href \o removeChar(matchText, " ")
                     ELSE href]
      ELSE [text |-> matchText, bold |-> b2, italic |-> italic]

\* matchSpan with line 313 as `t.bold = bold != None or italic != None`: ~~
\* makes bold too
matchSpan_italicIsBoth(m, matchText) ==
  LET italic == m.italic # NoneStr
      bold   == m.bold # NoneStr \/ italic
      b2     == IF ~(bold \/ italic) THEN m.both # NoneStr ELSE bold
      i2     == IF ~(bold \/ italic) THEN m.both # NoneStr ELSE italic
      href   == Or(m.linkHref, m.onlyLinkText)
  IN  IF Truthy(m.linkHref) \/ Truthy(m.onlyLinkText)
      THEN [text |-> matchText, bold |-> b2, italic |-> i2,
            href |-> IF href = <<"#">> THEN href \o removeChar(matchText, " ")
                     ELSE href]
      ELSE [text |-> matchText, bold |-> b2, italic |-> i2]

\* the Text object one match makes (lines 311-322), for a matchText that is
\* not None
matchSpan(m, matchText) ==
  LET bold   == m.bold # NoneStr
      italic == m.italic # NoneStr
      b2     == IF ~(bold \/ italic) THEN m.both # NoneStr ELSE bold
      i2     == IF ~(bold \/ italic) THEN m.both # NoneStr ELSE italic
      href   == Or(m.linkHref, m.onlyLinkText)
  IN  IF Truthy(m.linkHref) \/ Truthy(m.onlyLinkText)
      THEN [text |-> matchText, bold |-> b2, italic |-> i2,
            href |-> IF href = <<"#">> THEN href \o removeChar(matchText, " ")
                     ELSE href]
      ELSE [text |-> matchText, bold |-> b2, italic |-> i2]

\* bold or italic or both or linkText or onlyLinkText or otherwise or None
matchTextOf(m) ==
  Or(m.bold, Or(m.italic, Or(m.both, Or(m.linkText,
     Or(m.onlyLinkText, Or(m.otherwise, NoneStr))))))

\* lines 310-324: the result with the span of this match, if it has a text
collect(result, m, matchText) ==
  IF matchText # NoneStr THEN Append(result, matchSpan(m, matchText)) ELSE result

RECURSIVE scanText(_, _)
RECURSIVE scanStep(_, _, _)
\* one iteration of the while loop of parseText, for the match m: an empty
\* match ends the loop, any other is cut off the text
scanStep(text, result, m) ==
  IF m.len = 0 THEN result ELSE scanText(Drop(text, m.len), result)

\* the while loop of parseText: one match per iteration, until the text is
\* used up or a match is empty
scanText(text, result) ==
  IF text = <<>> THEN result
  ELSE scanStep(text, collect(result, regexMatch(text), matchTextOf(regexMatch(text))),
                regexMatch(text))

\* the spans of one re-parsed span r, each merged with r
mergeAll(newResults, r) ==
  [i \in 1..Len(newResults) |-> mergeWith(newResults[i], r)]

\* lines 333-334: the base case, one span that is the whole input
baseCase(result, text) == Len(result) = 1 /\ result[1].text = text

RECURSIVE parseText(_)
RECURSIVE mergeResults(_)
RECURSIVE finish(_, _)
\* the merge loop of parseText: each span's text is parsed again and the span
\* is merged into every span that gives
mergeResults(result) ==
  IF result = <<>> THEN <<>>
  ELSE mergeAll(parseText(Head(result).text), Head(result))
       \o mergeResults(Tail(result))

\* lines 331-346, for the result of the while loop
finish(result, text) ==
  IF baseCase(result, text) THEN result ELSE mergeResults(result)

\* Parser.parseText
parseText(text) == finish(scanText(text, <<>>), text)

\* ---------------------------------------------------------------- nodes
\* Node.__init__
Node(parent, level) ==
  [class |-> "Node", level |-> level, children |-> <<>>, parent |-> parent]

\* HeadingNode.__init__
HeadingNode(parent, level, title) ==
  [class |-> "HeadingNode", level |-> level, children |-> <<>>,
   parent |-> parent, title |-> title, textNode |-> None]

\* TextNode.__init__
TextNode(parent, level, text) ==
  [class |-> "TextNode", level |-> level, children |-> <<>>,
   parent |-> parent, text |-> text]

RECURSIVE rawText(_)
\* TextNode.rawText, for the spans self.text: their texts, joined
rawText(text) ==
  IF text = <<>> THEN <<>> ELSE Head(text).text \o rawText(Tail(text))

\* ---------------------------------------------------------------- traversal
RECURSIVE dfFlattenNodeTree(_, _, _)
RECURSIVE flattenChildren(_, _, _)
\* the loop over heading.children of dfFlattenNodeTree
flattenChildren(ns, children, maxLevel) ==
  IF children = <<>> THEN <<>>
  ELSE dfFlattenNodeTree(ns, Head(children), maxLevel)
       \o flattenChildren(ns, Tail(children), maxLevel)

\* dfFlattenNodeTree with line 35 as `heading.level >= maxLevel`
dfFlattenNodeTree_gte(ns, heading, maxLevel) ==
  IF maxLevel # 0 /\ ns[heading].level >= maxLevel THEN <<>>
  ELSE <<heading>> \o flattenChildren(ns, ns[heading].children, maxLevel)

\* dfFlattenNodeTree(heading, maxLevel): the node, then its descendants,
\* nothing of a node above maxLevel
dfFlattenNodeTree(ns, heading, maxLevel) ==
  IF maxLevel # 0 /\ ns[heading].level > maxLevel THEN <<>>
  ELSE <<heading>> \o flattenChildren(ns, ns[heading].children, maxLevel)

\* dfFlattenDescendants(heading, maxLevel)
dfFlattenDescendants(ns, heading, maxLevel) ==
  flattenChildren(ns, ns[heading].children, maxLevel)

\* HeadingNode.getTextLines
getTextLines(ns, h) ==
  IF ns[h].textNode = None THEN <<>>
  ELSE dfFlattenDescendants(ns, ns[h].textNode, 0)

\* ---------------------------------------------------------------- insert
\* link with line 245 as `currentNode.children.insert(0, newNode)`: the new
\* node becomes the first child
link_prepends(ns, currentNode, newNode) ==
  [ok |-> TRUE, newNode |-> Len(ns) + 1,
   nodes |-> Append([ns EXCEPT ![currentNode].children = <<Len(ns) + 1>> \o @],
                    newNode)]

\* creator(currentNode) linked in: the new object gets the next index of the
\* arena and is appended to currentNode.children
link(ns, currentNode, newNode) ==
  [ok |-> TRUE, newNode |-> Len(ns) + 1,
   nodes |-> Append([ns EXCEPT ![currentNode].children = Append(@, Len(ns) + 1)],
                    newNode)]

RECURSIVE insert_noClamp(_, _, _, _)
\* insert without line 260: a node placed across a skipped level keeps the
\* level it was asked for
insert_noClamp(ns, currentNode, level, made) ==
  IF level - 1 = ns[currentNode].level
  THEN link(ns, currentNode, [made EXCEPT !.parent = currentNode])
  ELSE IF level <= ns[currentNode].level
  THEN IF ns[currentNode].parent = None
       THEN [ok |-> FALSE, newNode |-> None, nodes |-> ns]
       ELSE insert_noClamp(ns, ns[currentNode].parent, level, made)
  ELSE link(ns, currentNode, [made EXCEPT !.parent = currentNode])

RECURSIVE insert_clampToCurrent(_, _, _, _)
\* insert with line 260 as `newNode.level = currentNode.level`
insert_clampToCurrent(ns, currentNode, level, made) ==
  IF level - 1 = ns[currentNode].level
  THEN link(ns, currentNode, [made EXCEPT !.parent = currentNode])
  ELSE IF level <= ns[currentNode].level
  THEN IF ns[currentNode].parent = None
       THEN [ok |-> FALSE, newNode |-> None, nodes |-> ns]
       ELSE insert_clampToCurrent(ns, ns[currentNode].parent, level, made)
  ELSE link(ns, currentNode,
            [made EXCEPT !.parent = currentNode, !.level = ns[currentNode].level])

RECURSIVE insert_sameLevelChild(_, _, _, _)
\* insert with line 243 as `level == currentNode.level`: a node of the
\* cursor's own level becomes its child
insert_sameLevelChild(ns, currentNode, level, made) ==
  IF level = ns[currentNode].level
  THEN link(ns, currentNode, [made EXCEPT !.parent = currentNode])
  ELSE IF level <= ns[currentNode].level
  THEN IF ns[currentNode].parent = None
       THEN [ok |-> FALSE, newNode |-> None, nodes |-> ns]
       ELSE insert_sameLevelChild(ns, ns[currentNode].parent, level, made)
  ELSE link(ns, currentNode,
            [made EXCEPT !.parent = currentNode,
                         !.level = ns[currentNode].level + 1])

RECURSIVE insert_strictWalkUp(_, _, _, _)
\* insert with line 249 as `level < currentNode.level`: a node one level above
\* the cursor's children finds no branch and raises
insert_strictWalkUp(ns, currentNode, level, made) ==
  IF level - 1 = ns[currentNode].level
  THEN link(ns, currentNode, [made EXCEPT !.parent = currentNode])
  ELSE IF level < ns[currentNode].level
  THEN IF ns[currentNode].parent = None
       THEN [ok |-> FALSE, newNode |-> None, nodes |-> ns]
       ELSE insert_strictWalkUp(ns, ns[currentNode].parent, level, made)
  ELSE IF level > ns[currentNode].level
  THEN link(ns, currentNode,
            [made EXCEPT !.parent = currentNode,
                         !.level = ns[currentNode].level + 1])
  ELSE [ok |-> FALSE, newNode |-> None, nodes |-> ns]

RECURSIVE insert(_, _, _, _)
\* Parser.insert(currentNode, level, creator); `made` is what creator makes,
\* less the parent.  [ok, newNode, nodes]; ok is FALSE when the assert fails
insert(ns, currentNode, level, made) ==
  IF level - 1 = ns[currentNode].level
  THEN link(ns, currentNode, [made EXCEPT !.parent = currentNode])
  ELSE IF level <= ns[currentNode].level
  THEN IF ns[currentNode].parent = None
       THEN [ok |-> FALSE, newNode |-> None, nodes |-> ns]
       ELSE insert(ns, ns[currentNode].parent, level, made)
  ELSE link(ns, currentNode,
            [made EXCEPT !.parent = currentNode,
                         !.level = ns[currentNode].level + 1])

\* ---------------------------------------------------------------- the line regexes
\* headingMatch with the regex '([=]+)(.+)': the title runs to the end of the line
headingMatch_restOfLine(line) ==
  LET n == CountLeadingIn(line, {"="})
  IN  [ok |-> n >= 1 /\ Len(line) > n, group1 |-> Take(line, n),
       group2 |-> Drop(line, n)]

\* re.match('([=]+)([^=]+)', line): [ok, group1, group2]
headingMatch(line) ==
  LET n == CountLeadingIn(line, {"="})
      m == CountLeadingNotIn(Drop(line, n), {"="})
  IN  [ok |-> n >= 1 /\ m >= 1, group1 |-> Take(line, n),
       group2 |-> SubSeq(line, n + 1, n + m)]

\* bulletMatch with the regex r'([\s]*)(\* .+)': the text keeps the "* "
bulletMatch_keepsMarker(line) ==
  LET n    == CountLeadingIn(line, Whitespace)
      rest == Drop(line, n)
  IN  [ok |-> Len(rest) >= 3 /\ rest[1] = "*" /\ rest[2] = " ",
       group1 |-> Take(line, n), group2 |-> rest]

\* re.match(r'([\s]*)\* (.+)', line): [ok, group1, group2]
bulletMatch(line) ==
  LET n    == CountLeadingIn(line, Whitespace)
      rest == Drop(line, n)
  IN  [ok |-> Len(rest) >= 3 /\ rest[1] = "*" /\ rest[2] = " ",
       group1 |-> Take(line, n), group2 |-> Drop(rest, 2)]

\* ---------------------------------------------------------------- the parser
VARIABLES
  nodes,           \* the arena of Node, HeadingNode and TextNode objects
  root,            \* Parser.root
  currentHeading,  \* Parser.currentHeading
  currentText,     \* Parser.currentText
  err,             \* the exception parseString ended with, "" while none
  hist,            \* history: one entry per line parseLine was called with
  input,           \* the text a caller handed to Parser.parseText
  stack,           \* the running calls of parseText, the innermost last
  output           \* what the outermost call of parseText returned

\* the Parser object and the lines it was given
parserVars == <<nodes, root, currentHeading, currentText, err, hist>>

\* a call of parseText from outside the parser
inlineVars == <<input, stack, output>>

vars == <<nodes, root, currentHeading, currentText, err, hist, input, stack, output>>

\* Parser.__init__
Init ==
  /\ nodes = <<Node(None, 0)>>
  /\ root = 1
  /\ currentHeading = 1
  /\ currentText = None
  /\ err = ""
  /\ hist = <<>>
  /\ input = <<>>
  /\ stack = <<>>
  /\ output = <<>>

\* one entry of the history: the line, what it was parsed as ("heading",
\* "text"), the level the parser computed for it (0: none), the node the
\* insertion started from and the node it made (None: none)
entry(line, kind, level, from, new) ==
  [line |-> line, kind |-> kind, level |-> level, from |-> from, new |-> new]

\* the line raised: nothing of the parser changed
raise(line, kind, exception) ==
  /\ err' = exception
  /\ hist' = Append(hist, entry(line, kind, 0, None, None))
  /\ UNCHANGED <<nodes, root, currentHeading, currentText>>

\* headingDone with line 223 not storing the new heading: the current
\* heading stays where it was
headingDone_keepsCurrentHeading(line, level, r) ==
  IF ~r.ok THEN raise(line, "heading", "AssertionError")
  ELSE /\ nodes' = r.nodes
       /\ currentText' = None
       /\ hist' = Append(hist, entry(line, "heading", level, currentHeading, r.newNode))
       /\ UNCHANGED <<root, err, currentHeading>>

\* headingDone without line 230: the text cursor stays where it was
headingDone_keepsTextCursor(line, level, r) ==
  IF ~r.ok THEN raise(line, "heading", "AssertionError")
  ELSE /\ nodes' = r.nodes
       /\ currentHeading' = r.newNode
       /\ hist' = Append(hist, entry(line, "heading", level, currentHeading, r.newNode))
       /\ UNCHANGED <<root, err, currentText>>

\* lines 223-230 of parseHeading, for the result r of insert
headingDone(line, level, r) ==
  IF ~r.ok THEN raise(line, "heading", "AssertionError")
  ELSE /\ nodes' = r.nodes
       /\ currentHeading' = r.newNode
       /\ currentText' = None
       /\ hist' = Append(hist, entry(line, "heading", level, currentHeading, r.newNode))
       /\ UNCHANGED <<root, err>>

\* lines 220-225 of parseHeading, for a match that is not None
insertHeading(line, level, text) ==
  headingDone(line, level,
              insert(nodes, currentHeading, level, HeadingNode(None, level, text)))

\* Parser.parseHeading
parseHeading(line) ==
  IF ~headingMatch(line).ok THEN raise(line, "heading", "AttributeError")
  ELSE insertHeading(line, Len(headingMatch(line).group1),
                     strip(headingMatch(line).group2))

\* the line made a node: the arena after it
textLineDone(line, level, from, r) ==
  /\ nodes' = r.nodes
  /\ hist' = Append(hist, entry(line, "text", level, from, r.newNode))
  /\ UNCHANGED <<root, currentHeading, err>>

\* placeTextLine with a plain line moving the cursor to its node too
placeTextLine_movesCursor(line, match, cur1, r) ==
  IF ~match.ok
  THEN /\ currentText' = r.newNode
       /\ textLineDone(line, 1, cur1, r)
  ELSE IF ~r.ok THEN raise(line, "text", "AssertionError")
  ELSE /\ currentText' = r.newNode
       /\ textLineDone(line, Len(match.group1) + 1, cur1, r)

\* lines 359-372 of parseTextLine, for the cursor cur1 that lines 356-357
\* leave and the node r made: a plain line leaves the cursor, a bullet line
\* moves it to the new node
placeTextLine(line, match, cur1, r) ==
  IF ~match.ok
  THEN /\ currentText' = cur1
       /\ textLineDone(line, 1, cur1, r)
  ELSE IF ~r.ok THEN raise(line, "text", "AssertionError")
  ELSE /\ currentText' = r.newNode
       /\ textLineDone(line, Len(match.group1) + 1, cur1, r)

\* textLineNode with line 367 as `level = len(match.group(1))`
textLineNode_levelIsIndent(line, match, ns1, cur1) ==
  IF ~match.ok
  THEN link(ns1, cur1, TextNode(cur1, 1, parseText(line)))
  ELSE insert(ns1, cur1, Len(match.group1),
              TextNode(None, Len(match.group1), parseText(match.group2)))

\* the node of a text line: lines 360-363 append a plain line below the
\* cursor, lines 367-372 insert a bullet line from the cursor
textLineNode(line, match, ns1, cur1) ==
  IF ~match.ok
  THEN link(ns1, cur1, TextNode(cur1, 1, parseText(line)))
  ELSE insert(ns1, cur1, Len(match.group1) + 1,
              TextNode(None, Len(match.group1) + 1, parseText(match.group2)))

\* freshRoot without the test of line 356: every text line starts a fresh
\* text tree
freshRoot_always == TRUE

\* lines 356-357: a fresh text root when the heading or the parser has none
freshRoot == nodes[currentHeading].textNode = None \/ currentText = None

\* the arena after lines 356-357
withTextRoot ==
  IF freshRoot
  THEN Append([nodes EXCEPT ![currentHeading].textNode = Len(nodes) + 1],
              Node(None, 0))
  ELSE nodes

\* Parser.currentText after lines 356-357
textCursor == IF freshRoot THEN Len(nodes) + 1 ELSE currentText

\* Parser.parseTextLine
parseTextLine(line) ==
  IF "textNode" \notin DOMAIN nodes[currentHeading]
  THEN raise(line, "text", "AttributeError")
  ELSE placeTextLine(line, bulletMatch(line), textCursor,
                     textLineNode(line, bulletMatch(line), withTextRoot, textCursor))

\* Parser.parseLine
parseLine(line) ==
  IF startswith(line, <<"=">>) THEN parseHeading(line) ELSE parseTextLine(line)

\* Parser.getHeadings(maxLevel)
getHeadings(maxLevel) == dfFlattenDescendants(nodes, root, maxLevel)

\* getHeading without the test of line 198: the first heading of any title
getHeading_anyTitle(title) ==
  IF getHeadings(0) = <<>> THEN None ELSE getHeadings(0)[1]

\* Parser.getHeading(title): the first of getHeadings() that has the title,
\* None when there is none
getHeading(title) ==
  LET hs   == getHeadings(0)
      hits == {i \in 1..Len(hs) : nodes[hs[i]].title = title}
  IN  IF hits = {} THEN None ELSE hs[SetMin(hits)]

\* ---------------------------------------------------------------- documents
\* n times the character c
Rep(c, n) == [i \in 1..n |-> c]

\* heading lines of a document: 1..MaxEq '=', with a title or with none
HeadingLines == {Rep("=", n) \o t : n \in 1..MaxEq, t \in {<<>>, <<"a">>}}

\* text lines of a document: the empty line, a plain line, bullet lines
TextLines ==
  {<<>>, <<"a">>} \cup {Rep(" ", i) \o <<"*", " ", "a">> : i \in 0..MaxIndent}

DocLines == HeadingLines \cup TextLines

\* every string of at most MaxLineLen characters of Alphabet
AnyLines == UNION {[1..n -> Alphabet] : n \in 0..MaxLineLen}

\* Parser.parseString, one iteration of its loop: the next line of the
\* document is parsed, unless an earlier line raised
parseString ==
  /\ err = ""
  /\ Len(hist) < MaxLines
  /\ \E line \in DocLines : parseLine(line)
  /\ UNCHANGED inlineVars

Next == parseString

Spec == Init /\ [][Next]_vars

\* parseString on a document of one arbitrary line, or of a heading line of
\* DocLines and one arbitrary line
parseAnyLine ==
  /\ err = ""
  /\ hist = <<>> \/ (Len(hist) = 1 /\ hist[1].line \in HeadingLines)
  /\ \E line \in AnyLines : parseLine(line)
  /\ UNCHANGED inlineVars

NextLine == parseAnyLine

SpecLine == Init /\ [][NextLine]_vars

\* the lines of a document of titled headings: 1..MaxEq '=' and one of two
\* titles, and a plain text line
TitledLines ==
  {Rep("=", n) \o t : n \in 1..MaxEq, t \in {<<"a">>, <<"b">>}} \cup {<<"a">>}

\* parseString on a document of titled headings, one iteration of its loop
parseTitled ==
  /\ err = ""
  /\ Len(hist) < MaxLines
  /\ \E line \in TitledLines : parseLine(line)
  /\ UNCHANGED inlineVars

NextTitled == parseTitled

SpecTitled == Init /\ [][NextTitled]_vars

\* wtex.split('\n') of the document "=Intro\n* __Hi__ there\n==Sub\nplain line\n"
ExampleDoc ==
  << <<"=", "I", "n", "t", "r", "o">>,
     <<"*", " ", "_", "_", "H", "i", "_", "_", " ", "t", "h", "e", "r", "e">>,
     <<"=", "=", "S", "u", "b">>,
     <<"p", "l", "a", "i", "n", " ", "l", "i", "n", "e">>,
     <<>> >>

\* the lines of that document
ExampleLines == {ExampleDoc[i] : i \in 1..Len(ExampleDoc)}

\* parseString on a document of as many lines, each one of those lines, one
\* iteration of its loop
parseExample ==
  /\ err = ""
  /\ Len(hist) < Len(ExampleDoc)
  /\ \E line \in ExampleLines : parseLine(line)
  /\ UNCHANGED inlineVars

NextExample == parseExample

SpecExample == Init /\ [][NextExample]_vars

\* ---------------------------------------------------------------- parseText, step by step
\* the pieces the texts handed to parseText are written with
Tokens ==
  {<<"_", "_">>, <<"~", "~">>, <<"*", "*">>, <<"[", "[">>, <<"]", "]">>,
   <<"|">>, <<"a">>}

RECURSIVE TextsOf(_)
\* the texts written with at most n tokens
TextsOf(n) ==
  IF n = 0 THEN {<<>>}
  ELSE LET shorter == TextsOf(n - 1)
       IN  shorter \cup {s \o t : s \in shorter, t \in Tokens}

InlineTexts == TextsOf(MaxTokens)

\* the texts of the runs followed to their end
RunTexts == TextsOf(MaxRunTokens)

\* a call parseText(text) at line 271: nothing matched yet
frame(text) ==
  [text |-> text, origanalText |-> text, result |-> <<>>, at |-> "while",
   r |-> 1, mergedResults |-> <<>>]

\* the innermost running call
top == stack[Len(stack)]

\* the stack with f as the innermost call
withTop(f) == [stack EXCEPT ![Len(stack)] = f]

\* lines 342-344 in the caller: the spans the call for result[r] returned are
\* merged with result[r] and appended, and the merge loop goes on
merged(caller, value) ==
  [caller EXCEPT !.mergedResults = @ \o mergeAll(value, caller.result[caller.r]),
                 !.r = @ + 1]

\* the innermost call returns value: to the call that made it, or to the
\* caller of the outermost call
return(value) ==
  IF Len(stack) = 1
  THEN /\ stack' = <<>>
       /\ output' = value
  ELSE /\ stack' = [SubSeq(stack, 1, Len(stack) - 1) EXCEPT
                      ![Len(stack) - 1] = merged(@, value)]
       /\ UNCHANGED output

\* loopBody without lines 327-328: an empty match does not end the loop
loopBody_noGuard(f, m) ==
  [f EXCEPT !.result = collect(@, m, matchTextOf(m)),
            !.text = Drop(@, m.len)]

\* lines 301-329, one iteration of the while loop for the match m (the regex
\* matches every text, so line 303 is never reached): the span is collected;
\* an empty match breaks out of the loop, any other is cut off the text
loopBody(f, m) ==
  [f EXCEPT !.result = collect(@, m, matchTextOf(m)),
            !.text = IF m.len = 0 THEN @ ELSE Drop(@, m.len),
            !.at = IF m.len = 0 THEN "after" ELSE "while"]

\* one iteration of the while loop of the innermost call
whileLoop ==
  /\ stack # <<>> /\ top.at = "while" /\ top.text # <<>>
  /\ stack' = withTop(loopBody(top, regexMatch(top.text)))
  /\ UNCHANGED <<input, output>>
  /\ UNCHANGED parserVars

\* lines 331-338, after the loop: the base case returns the result, any
\* other result goes to the merge loop
afterLoop ==
  /\ stack # <<>>
  /\ top.at = "after" \/ (top.at = "while" /\ top.text = <<>>)
  /\ IF baseCase(top.result, top.origanalText)
     THEN return(top.result)
     ELSE /\ stack' = withTop([top EXCEPT !.at = "merge"])
          /\ UNCHANGED output
  /\ UNCHANGED input
  /\ UNCHANGED parserVars

\* line 340: the merge loop parses the text of the next span of result
callParseText ==
  /\ stack # <<>> /\ top.at = "merge" /\ top.r <= Len(top.result)
  /\ stack' = Append(stack, frame(top.result[top.r].text))
  /\ UNCHANGED <<input, output>>
  /\ UNCHANGED parserVars

\* line 346: the merge loop is through
returnMerged ==
  /\ stack # <<>> /\ top.at = "merge" /\ top.r > Len(top.result)
  /\ return(top.mergedResults)
  /\ UNCHANGED input
  /\ UNCHANGED parserVars

\* a fresh parser, and parseText called with one of the texts
calledWith(texts) ==
  /\ nodes = <<Node(None, 0)>>
  /\ root = 1
  /\ currentHeading = 1
  /\ currentText = None
  /\ err = ""
  /\ hist = <<>>
  /\ input \in texts
  /\ stack = <<frame(input)>>
  /\ output = <<>>

InitInline == calledWith(InlineTexts)

NextInline == whileLoop \/ afterLoop \/ callParseText \/ returnMerged

SpecInline == InitInline /\ [][NextInline]_vars

InitRun == calledWith(RunTexts)

\* the interpreter runs the call on as long as it has a next step
SpecRun == InitRun /\ [][NextInline]_vars /\ WF_vars(NextInline)

\* ---------------------------------------------------------------- reading a state
\* the last entry of the history
Last == hist[Len(hist)]

\* the number of leading '=' of a line
EqCount(line) ==
  CHOOSE n \in 0..Len(line) :
    /\ \A i \in 1..n : line[i] = "="
    /\ n < Len(line) => line[n + 1] # "="

\* the number of leading blanks of a line
IndentOf(line) ==
  CHOOSE n \in 0..Len(line) :
    /\ \A i \in 1..n : line[i] = " "
    /\ n < Len(line) => line[n + 1] # " "

\* the line starts with '='
IsHeadingLine(line) == line # <<>> /\ line[1] = "="

\* a heading line that declares a heading: something follows its leading '='
DeclaresHeading(line) == IsHeadingLine(line) /\ EqCount(line) < Len(line)

\* blanks, then "* ", then at least one character
IsBulletLine(line) ==
  /\ Len(line) >= IndentOf(line) + 3
  /\ line[IndentOf(line) + 1] = "*"
  /\ line[IndentOf(line) + 2] = " "

\* a text line that is no bullet line
IsPlainLine(line) == ~IsHeadingLine(line) /\ ~IsBulletLine(line)

RECURSIVE Ancestors(_, _)
\* the parent of n in the arena ns, its parent, and so on
Ancestors(ns, n) ==
  IF ns[n].parent = None THEN {}
  ELSE {ns[n].parent} \cup Ancestors(ns, ns[n].parent)

\* the number of parent links from n up to the root of its tree
Depth(ns, n) == Cardinality(Ancestors(ns, n))

\* the root of the tree n is in
TopOf(ns, n) == CHOOSE a \in Ancestors(ns, n) \cup {n} : ns[a].parent = None

\* n is the last of its parent's children
IsLastChild(ns, n) ==
  /\ ns[ns[n].parent].children # <<>>
  /\ ns[ns[n].parent].children[Len(ns[ns[n].parent].children)] = n

\* the HeadingNode objects
Headings == {h \in 1..Len(nodes) : nodes[h].class = "HeadingNode"}

Min(a, b) == IF a <= b THEN a ELSE b

\* this step parsed a line
Parsed == hist' # hist

\* the line this step parsed
NewLine == hist'[Len(hist')].line

\* the node this step made, when it made one: the last of the arena
NewNode == Len(nodes')

\* ---------------------------------------------------------------- the claims

\* C1 (as claimed): parseString processes every line of every document and
\* never ends with an exception.
C1_NeverFatal == err = ""

CursorOf == IF currentText = None THEN nodes'[currentHeading].textNode ELSE currentText

C3_HeadingLevelIsDepth ==
  \A h \in Headings :
    /\ nodes[h].parent # None
    /\ nodes[h].level = nodes[nodes[h].parent].level + 1
    /\ TopOf(nodes, h) = root
    /\ nodes[root].level = 0
    /\ nodes[h].level = Depth(nodes, h)

\* C3 witness: the tree holds a heading placed across a skipped level and a
\* heading placed after a walk up from the current heading.
C3_ClampedAndWalkedUp ==
  /\ \E i \in 1..Len(hist) :
       /\ hist[i].kind = "heading" /\ hist[i].new # None
       /\ nodes[hist[i].new].level < EqCount(hist[i].line)
  /\ \E i \in 1..Len(hist) :
       /\ hist[i].kind = "heading" /\ hist[i].new # None
       /\ nodes[hist[i].new].parent # hist[i].from

\* C4 (as claimed): every HeadingNode's level is the number of leading '=' of
\* the line that declared it.
C4_LevelIsEqCount ==
  \A i \in 1..Len(hist) :
    (hist[i].kind = "heading" /\ hist[i].new # None) =>
      nodes[hist[i].new].level = EqCount(hist[i].line)

\* C4 (amended): every HeadingNode was declared by one heading line, and its
\* level is the number of leading '=' of that line, or, when that is more than
\* one above the level of the heading current when the line was parsed, that
\* level + 1.
C4_LevelIsClampedEqCount ==
  /\ \A h \in Headings :
       Cardinality({i \in 1..Len(hist) : hist[i].new = h}) = 1
  /\ \A i \in 1..Len(hist) :
       (hist[i].kind = "heading" /\ hist[i].new # None) =>
         /\ hist[i].new \in Headings
         /\ nodes[hist[i].new].level =
              Min(EqCount(hist[i].line), nodes[hist[i].from].level + 1)

\* C4 witness: one heading has the level of its '=' count, another a lower one.
C4_OneExactOneClamped ==
  /\ \E i \in 1..Len(hist) :
       /\ hist[i].kind = "heading" /\ hist[i].new # None
       /\ nodes[hist[i].new].level = EqCount(hist[i].line)
  /\ \E i \in 1..Len(hist) :
       /\ hist[i].kind = "heading" /\ hist[i].new # None
       /\ nodes[hist[i].new].level < EqCount(hist[i].line)

\* C5: a line that declares a heading with more '=' than the current
\* heading's level + 1 raises nothing; the new heading is the last child of
\* the current heading, with level the current heading's level + 1, and is
\* the current heading from then on.
C5_SkippedLevelClamped ==
  [][(Parsed /\ DeclaresHeading(NewLine)
        /\ EqCount(NewLine) > nodes[currentHeading].level + 1) =>
       /\ err' = ""
       /\ Len(nodes') = Len(nodes) + 1
       /\ nodes'[NewNode].class = "HeadingNode"
       /\ nodes'[NewNode].parent = currentHeading
       /\ nodes'[NewNode].level = nodes[currentHeading].level + 1
       /\ IsLastChild(nodes', NewNode)
       /\ currentHeading' = NewNode]_vars

\* C5 witness: a level-1 heading was current and a line of three '=' made its
\* child of level 2.
C5_OneThenThree ==
  /\ hist # <<>> /\ err = "" /\ Last.kind = "heading"
  /\ EqCount(Last.line) = 3
  /\ nodes[Last.from].class = "HeadingNode"
  /\ nodes[Last.from].level = 1
  /\ nodes[Last.new].parent = Last.from
  /\ nodes[Last.new].level = 2

\* s without its leading and trailing blanks
TrimOf(s) ==
  LET inked == {i \in 1..Len(s) : s[i] # " "}
  IN  IF inked = {} THEN <<>> ELSE SubSeq(s, SetMin(inked), SetMax(inked))

\* what follows the leading '=' of a line
AfterEq(line) == SubSeq(line, EqCount(line) + 1, Len(line))

\* what follows the leading '=' of a line, up to the next '=' or the end
UpToNextEq(line) ==
  LET later == {i \in (EqCount(line) + 1)..Len(line) : line[i] = "="}
  IN  SubSeq(line, EqCount(line) + 1,
             IF later = {} THEN Len(line) ELSE SetMin(later) - 1)

\* C6 (as claimed): a line that starts with '=' is parsed as a heading whose
\* level is its count of leading '=' and whose title is all the rest of the
\* line, trimmed; any other line is parsed as a text line.
C6_TitleIsRestOfLine ==
  hist # <<>> =>
    /\ IsHeadingLine(Last.line) =>
         /\ Last.kind = "heading"
         /\ Last.new # None =>
              /\ nodes[Last.new].class = "HeadingNode"
              /\ Last.level = EqCount(Last.line)
              /\ nodes[Last.new].title = TrimOf(AfterEq(Last.line))
    /\ ~IsHeadingLine(Last.line) => Last.kind = "text"

\* C6 (amended): a line that starts with '=' goes to the heading parser and,
\* when something follows its leading '=', declares a heading whose level is
\* its count of leading '=' and whose title is what follows them up to the
\* next '=' or the end of the line, trimmed; any other line is parsed as a
\* text line.
C6_TitleIsUpToNextEq ==
  hist # <<>> =>
    /\ IsHeadingLine(Last.line) =>
         /\ Last.kind = "heading"
         /\ DeclaresHeading(Last.line) => Last.new # None
         /\ Last.new # None =>
              /\ nodes[Last.new].class = "HeadingNode"
              /\ Last.level = EqCount(Last.line)
              /\ nodes[Last.new].title = TrimOf(UpToNextEq(Last.line))
              /\ currentHeading = Last.new
    /\ ~IsHeadingLine(Last.line) =>
         /\ Last.kind = "text"
         /\ Last.new # None => nodes[Last.new].class = "TextNode"

\* C6 witness: a heading whose line goes on after a second run of '=', and
\* whose title was trimmed.
C6_TitleCutAndTrimmed ==
  /\ hist # <<>> /\ Last.kind = "heading" /\ Last.new # None
  /\ nodes[Last.new].title # <<>>
  /\ nodes[Last.new].title # UpToNextEq(Last.line)
  /\ UpToNextEq(Last.line) # AfterEq(Last.line)

\* the heading lines that made a heading, by their place in the document
Declarations == {i \in 1..Len(hist) : hist[i].kind = "heading" /\ hist[i].new # None}

\* the text line of this step is the first one under its heading
FirstTextLine == currentText = None

\* C7: the current heading is the one the latest heading line declared; a
\* heading line makes its heading the current one and unsets the text cursor;
\* once a heading is declared, a text line is stored in the text tree of the
\* current heading, the first one under a fresh level-0 parentless root that
\* becomes the heading's textNode and holds the cursor; no node outside that
\* tree changes.
C7_TextUnderLatestHeading ==
  /\ [](currentHeading = IF Declarations = {} THEN root
                         ELSE hist[SetMax(Declarations)].new)
  /\ [][(Parsed /\ DeclaresHeading(NewLine)) =>
          /\ err' = ""
          /\ Len(nodes') = Len(nodes) + 1
          /\ nodes'[NewNode].class = "HeadingNode"
          /\ nodes'[NewNode].textNode = None
          /\ currentHeading' = NewNode
          /\ currentText' = None]_vars
  /\ [][(Parsed /\ ~IsHeadingLine(NewLine) /\ currentHeading # root) =>
          /\ err' = ""
          /\ currentHeading' = currentHeading
          /\ nodes'[NewNode].class = "TextNode"
          /\ TopOf(nodes', NewNode) = nodes'[currentHeading].textNode
          /\ TopOf(nodes', currentText') = nodes'[currentHeading].textNode
          /\ IF FirstTextLine
             THEN /\ nodes[currentHeading].textNode = None
                  /\ nodes'[currentHeading].textNode = Len(nodes) + 1
                  /\ NewNode = Len(nodes) + 2
                  /\ nodes'[Len(nodes) + 1] =
                       [class |-> "Node", level |-> 0, parent |-> None,
                        children |-> <<NewNode>>]
                  /\ currentText' = IF IsBulletLine(NewLine) THEN NewNode
                                    ELSE Len(nodes) + 1
             ELSE /\ nodes'[currentHeading].textNode = nodes[currentHeading].textNode
                  /\ NewNode = Len(nodes) + 1
          /\ \A i \in 1..Len(nodes) :
               nodes'[i] # nodes[i] =>
                 \/ i = currentHeading /\ FirstTextLine
                 \/ TopOf(nodes', i) = nodes'[currentHeading].textNode]_vars

\* C7 witness: a text line was stored under the second of two headings, the
\* first of which has text of its own.
C7_TwoHeadingsWithText ==
  /\ hist # <<>> /\ err = "" /\ Last.kind = "text"
  /\ \E h \in Headings \ {currentHeading} :
       /\ nodes[h].textNode # None
       /\ nodes[nodes[h].textNode].children # <<>>
  /\ TopOf(nodes, Last.new) = nodes[currentHeading].textNode

\* C8 (as claimed): a bullet line's node has level (its leading blanks) + 1,
\* and the text cursor moves to it.
C8_BulletLevelIsIndent ==
  [][(Parsed /\ err' = "" /\ IsBulletLine(NewLine)) =>
       /\ nodes'[NewNode].class = "TextNode"
       /\ nodes'[NewNode].level = IndentOf(NewLine) + 1
       /\ currentText' = NewNode]_vars

\* C8 (amended): a bullet line's node has level (its leading blanks) + 1, or,
\* when that is more than one above the level of the text cursor, the
\* cursor's level + 1; it is the last child of the cursor or of the ancestor
\* of the cursor one level above it, and the text cursor moves to it.
C8_BulletLevelIsClampedIndent ==
  [][(Parsed /\ err' = "" /\ IsBulletLine(NewLine)) =>
       /\ nodes'[NewNode].class = "TextNode"
       /\ nodes'[NewNode].level =
            Min(IndentOf(NewLine) + 1, nodes'[CursorOf].level + 1)
       /\ nodes'[NewNode].parent \in Ancestors(nodes', CursorOf) \cup {CursorOf}
       /\ nodes'[nodes'[NewNode].parent].level = nodes'[NewNode].level - 1
       /\ IsLastChild(nodes', NewNode)
       /\ currentText' = NewNode]_vars

\* C8 witness: a bullet line with two leading blanks was inserted below a
\* level-1 bullet node, with level 2.
C8_BulletClamped ==
  /\ hist # <<>> /\ err = "" /\ IsBulletLine(Last.line)
  /\ IndentOf(Last.line) = 2
  /\ nodes[Last.from].class = "TextNode"
  /\ nodes[Last.new].parent = Last.from
  /\ nodes[Last.new].level = 2
  /\ currentText = Last.new

\* the ancestors of n that have level l
AncestorsAt(ns, n, l) == {a \in Ancestors(ns, n) : ns[a].level = l}

\* the nearest of them
NearestAncestorAt(ns, n, l) ==
  CHOOSE a \in AncestorsAt(ns, n, l) :
    \A b \in AncestorsAt(ns, n, l) : Depth(ns, b) <= Depth(ns, a)

\* the node this step inserts from: the current heading for a heading line,
\* the text cursor for a bullet line
InsertFrom == IF IsHeadingLine(NewLine) THEN currentHeading ELSE CursorOf

\* the level this step inserts at
InsertLevel ==
  IF IsHeadingLine(NewLine) THEN EqCount(NewLine) ELSE IndentOf(NewLine) + 1

\* C9: no line of any document fails insert's assert; when a heading or a
\* bullet is inserted at a level that is not above the cursor's, the new node
\* gets that level and becomes the last child of the nearest ancestor of the
\* cursor that is one level above it.
C9_WalkUpFindsParent ==
  /\ [](err # "AssertionError")
  /\ [][(/\ Parsed
         /\ DeclaresHeading(NewLine) \/ (IsBulletLine(NewLine) /\ currentHeading # root)
         /\ InsertLevel <= nodes'[InsertFrom].level) =>
          /\ err' = ""
          /\ Len(nodes') = Len(nodes) + 1
          /\ nodes'[NewNode].level = InsertLevel
          /\ AncestorsAt(nodes', InsertFrom, InsertLevel - 1) # {}
          /\ nodes'[NewNode].parent =
               NearestAncestorAt(nodes', InsertFrom, InsertLevel - 1)
          /\ IsLastChild(nodes', NewNode)]_vars

\* C9 witness: a bullet of level 1 was inserted from a cursor of level 2, two
\* parents up, below the text root.
C9_WalkedUpTwice ==
  /\ hist # <<>> /\ err = "" /\ IsBulletLine(Last.line)
  /\ nodes[Last.from].level = 2
  /\ nodes[Last.new].level = 1
  /\ nodes[Last.new].parent = nodes[nodes[Last.from].parent].parent
  /\ nodes[Last.new].parent = nodes[currentHeading].textNode

\* the maxLevel arguments tried: the positive ones and a negative one
MaxLevels == (1..MaxLevelArg) \cup {-1}

\* the elements of a sequence
Range(s) == {s[i] : i \in 1..Len(s)}

\* every node's ancestors and itself
Lineages == [m \in 1..Len(nodes) |-> Ancestors(nodes, m) \cup {m}]

RECURSIVE PathOf(_)
\* the place of n in its tree: from the root down, which child to take
PathOf(n) ==
  IF nodes[n].parent = None THEN <<>>
  ELSE LET sibs == nodes[nodes[n].parent].children
       IN  Append(PathOf(nodes[n].parent),
                  CHOOSE i \in 1..Len(sibs) : sibs[i] = n)

\* every node's place in its tree
Paths == [m \in 1..Len(nodes) |-> PathOf(m)]

\* the node at path p comes before the node at path q in pre-order: p leads
\* to an ancestor, or branches off to an earlier child
PreOrderBefore(p, q) ==
  \/ Len(p) < Len(q) /\ SubSeq(q, 1, Len(p)) = p
  \/ \E i \in 1..Min(Len(p), Len(q)) :
       /\ SubSeq(p, 1, i - 1) = SubSeq(q, 1, i - 1)
       /\ p[i] < q[i]

\* the nodes of s come in pre-order, each before the next (so none twice),
\* for the places `path` of the nodes
InPreOrder(path, s) ==
  \A i \in 1..(Len(s) - 1) : PreOrderBefore(path[s[i]], path[s[i + 1]])

\* n and the nodes below it, for the lineages lin
SubtreeOf(lin, n) == {m \in DOMAIN lin : n \in lin[m]}

\* the nodes of S with level <= k
UpToLevel(S, k) == {m \in S : nodes[m].level <= k}

\* the nodes of S with level <= k that lie below no node of S with level > k
Unpruned(lin, S, k) == {m \in S : \A a \in lin[m] \cap S : nodes[a].level <= k}

HeadingEntries == {i \in 1..Len(hist) : IsHeadingLine(hist[i].line)}

\* the '=' count of the heading line before line i, 0 when there is none
EqCountBefore(i) ==
  IF \A j \in HeadingEntries : j >= i THEN 0
  ELSE EqCount(hist[SetMax({j \in HeadingEntries : j < i})].line)

\* a well-formed document whose heading levels go down one step at a time:
\* it starts with a heading line, every heading line has a title, and none
\* has more than one '=' more than the heading line before it
WellFormed ==
  /\ hist # <<>> /\ IsHeadingLine(hist[1].line)
  /\ \A i \in HeadingEntries :
       /\ DeclaresHeading(hist[i].line)
       /\ EqCount(hist[i].line) <= EqCountBefore(i) + 1

\* the title a heading line declares
TitleOf(line) == TrimOf(UpToNextEq(line))

\* the largest of a set of naturals, 0 for the empty set
MaxOf(S) == IF S = {} THEN 0 ELSE SetMax(S)

\* C11: a well-formed document whose heading levels go down one step at a
\* time is parsed without an exception; the depth of its heading tree is the
\* largest '=' count of its lines; getHeading finds a heading of each
\* declared title, and getHeadings() yields each declared heading once and
\* nothing else.
C11_DepthAndLookup ==
  WellFormed =>
    /\ err = ""
    /\ MaxOf({Depth(nodes, h) : h \in Headings}) =
         MaxOf({EqCount(hist[i].line) : i \in HeadingEntries})
    /\ \A i \in HeadingEntries :
         /\ hist[i].new \in Headings
         /\ nodes[hist[i].new].title = TitleOf(hist[i].line)
         /\ getHeading(TitleOf(hist[i].line)) \in Headings
         /\ nodes[getHeading(TitleOf(hist[i].line))].title = TitleOf(hist[i].line)
         /\ Cardinality({k \in 1..Len(getHeadings(0)) :
                           getHeadings(0)[k] = hist[i].new}) = 1
    /\ Len(getHeadings(0)) = Cardinality(HeadingEntries)

\* C11 witness: a well-formed document with headings three deep, a heading
\* placed after a walk up, and both titles, the second heading being the
\* first of its title.
C11_ThreeDeepTwoTitles ==
  /\ WellFormed
  /\ \E h \in Headings : Depth(nodes, h) = 3
  /\ \E i \in HeadingEntries : nodes[hist[i].new].parent # hist[i].from
  /\ Len(getHeadings(0)) >= 2
  /\ getHeading(nodes[getHeadings(0)[2]].title) = getHeadings(0)[2]

\* the outermost call of parseText has returned
Returned == stack = <<>>

\* the two-character markers: the openers and the closer of a link
Markers == Openers \cup {<<"]", "]">>}

\* no marker stands anywhere in s
MarkerFree(s) == \A k \in 1..(Len(s) - 1) : \A m \in Markers : ~MarkerAt(s, k, m)

\* a span of plain text: not bold, not italic, no href
IsPlain(span) == ~span.bold /\ ~span.italic /\ "href" \notin DOMAIN span

\* C12 (as claimed): for a text with one opening marker, marker-free text
\* before it and marker-free text after it (so no closer), parseText returns
\* the span of the text before the marker, if there is any, and then the
\* marker and the text after it as plain spans.
C12_UnterminatedKeptAsText ==
  Returned =>
    \A k \in 1..(Len(input) - 1) : \A m \in Openers :
      (/\ MarkerAt(input, k, m)
       /\ MarkerFree(Take(input, k - 1))
       /\ MarkerFree(Drop(input, k + 1))) =>
        LET before == IF k = 1 THEN <<>> ELSE <<Text(Take(input, k - 1))>>
            after  == SubSeq(output, Len(before) + 1, Len(output))
        IN  /\ Len(output) > Len(before)
            /\ SubSeq(output, 1, Len(before)) = before
            /\ rawText(after) = Drop(input, k - 1)
            /\ \A i \in 1..Len(after) : IsPlain(after[i])

\* what stands between the first two and the last two characters of s
Inner(s) == SubSeq(s, 3, Len(s) - 2)

\* s is a non-empty marker-free text between two markers m
Wrapped(s, m) ==
  /\ Len(s) >= 5
  /\ MarkerAt(s, 1, m) /\ MarkerAt(s, Len(s) - 1, m)
  /\ MarkerFree(Inner(s))

\* C13 (as claimed): parseText of **X**, X marker-free and not empty, is one
\* span with the text X, bold, not italic, without href.
C13_StarsAreBold ==
  (Returned /\ Wrapped(input, <<"*", "*">>)) =>
    output = <<[text |-> Inner(input), bold |-> TRUE, italic |-> FALSE]>>

\* C13 (amended): parseText of **X**, X marker-free and not empty, is one
\* span with the text X, bold and italic, without href.
C13_StarsAreBoldItalic ==
  (Returned /\ Wrapped(input, <<"*", "*">>)) =>
    output = <<[text |-> Inner(input), bold |-> TRUE, italic |-> TRUE]>>

\* C13 witness: parseText returned the one span of ** around a text of two
\* characters.
C13_StarsParsed ==
  /\ Returned /\ Wrapped(input, <<"*", "*">>)
  /\ Len(Inner(input)) = 2
  /\ Len(output) = 1 /\ output[1].text = Inner(input)

\* C14 (as claimed): parseText of ~~X~~, X marker-free and not empty, is one
\* span with the text X, bold and italic.
C14_TildesAreBoldItalic ==
  (Returned /\ Wrapped(input, <<"~", "~">>)) =>
    /\ Len(output) = 1
    /\ output[1].text = Inner(input)
    /\ output[1].bold /\ output[1].italic

\* C14 (amended): parseText of ~~X~~, X marker-free and not empty, is one
\* span with the text X, italic, not bold, without href.
C14_TildesAreItalic ==
  (Returned /\ Wrapped(input, <<"~", "~">>)) =>
    output = <<[text |-> Inner(input), bold |-> FALSE, italic |-> TRUE]>>

\* C14 witness: parseText returned the one span of ~~ around a text of two
\* characters.
C14_TildesParsed ==
  /\ Returned /\ Wrapped(input, <<"~", "~">>)
  /\ Len(Inner(input)) = 2
  /\ Len(output) = 1 /\ output[1].text = Inner(input)

\* this step returns from a call of the merge loop to the call that made it
ReturnsToCaller == Len(stack) >= 2 /\ Len(stack') = Len(stack) - 1

\* what the innermost call returns when it returns: its result in the base
\* case, its merged results after the merge loop
Returns == IF top.at = "merge" THEN top.mergedResults ELSE top.result

\* the span the claim describes for the span `inner` of the re-parsed text of
\* the span `outer`
UnionOf(inner, outer) ==
  LET bold   == inner.bold \/ outer.bold
      italic == inner.italic \/ outer.italic
  IN  IF "href" \in DOMAIN inner
      THEN [text |-> inner.text, bold |-> bold, italic |-> italic,
            href |-> inner.href]
      ELSE IF "href" \in DOMAIN outer
      THEN [text |-> inner.text, bold |-> bold, italic |-> italic,
            href |-> outer.href]
      ELSE [text |-> inner.text, bold |-> bold, italic |-> italic]

\* C15: when the re-parse of a span's text returns, the caller appends, for
\* each span returned and in their order, a span with the inner span's text,
\* the flags of both or-ed, and the inner span's href or else the outer
\* span's; the spans merged before, the spans of the caller's result and the
\* callers further out stay as they are.
C15_MergeIsUnion ==
  [][ReturnsToCaller =>
       LET caller == stack[Len(stack) - 1]
           outer  == caller.result[caller.r]
       IN  /\ stack'[Len(stack')] =
                [caller EXCEPT
                   !.mergedResults =
                      @ \o [i \in 1..Len(Returns) |-> UnionOf(Returns[i], outer)],
                   !.r = @ + 1]
           /\ SubSeq(stack', 1, Len(stack') - 1) = SubSeq(stack, 1, Len(stack) - 2)
           /\ UNCHANGED <<input, output>>]_vars

\* C15 witness: the bold span of a re-parsed link text was merged with the
\* link, which is not bold: the merged span is bold and has the link's href.
C15_BoldInsideLink ==
  /\ Len(stack) = 1 /\ top.at = "merge" /\ top.r = 2
  /\ "href" \in DOMAIN top.result[1] /\ ~top.result[1].bold
  /\ Len(top.mergedResults) = 1
  /\ top.mergedResults[1].bold
  /\ "href" \in DOMAIN top.mergedResults[1]
  /\ top.mergedResults[1].href = top.result[1].href
  /\ top.mergedResults[1].text # top.result[1].text

\* C16: every call of parseText returns; an iteration of the while loop
\* either cuts at least one character off the remaining text or ends the
\* loop; a re-parse is started on a text shorter than the text of the call
\* that starts it, and a call whose result is the base case returns without
\* any re-parse.
C16_Terminates ==
  /\ <>Returned
  /\ [][whileLoop =>
          /\ Len(stack') = Len(stack)
          /\ \/ Len(stack'[Len(stack')].text) < Len(top.text)
             \/ stack'[Len(stack')].at = "after"]_vars
  /\ [][callParseText =>
          /\ Len(stack') = Len(stack) + 1
          /\ stack'[Len(stack')].text = stack'[Len(stack')].origanalText
          /\ Len(stack'[Len(stack')].origanalText) < Len(top.origanalText)]_vars
  /\ [][(afterLoop /\ baseCase(top.result, top.origanalText)) =>
          Len(stack') = Len(stack) - 1]_vars

\* C16 witness: an empty match ended the loop of the outermost call with
\* text left over, and the re-parse of its one span is running.
C16_GuardThenReparse ==
  /\ Len(stack) = 2
  /\ stack[1].at = "merge" /\ stack[1].text # <<>>
  /\ Len(stack[1].result) = 1
  /\ top.origanalText = stack[1].result[1].text

\* s is the start of t
IsPrefix(s, t) == Len(s) <= Len(t) /\ SubSeq(t, 1, Len(s)) = s

\* C17: a step of the parser only adds nodes: the root stays; every node
\* there was keeps its class, parent, level, title and spans; its children
\* stay, in their order, and only nodes that are new are appended to them; a
\* heading's textNode, once set, stays the same.
C17_AppendOnly ==
  [][/\ root' = root
     /\ Len(nodes') >= Len(nodes)
     /\ \A i \in 1..Len(nodes) :
          /\ nodes'[i].class = nodes[i].class
          /\ nodes'[i].parent = nodes[i].parent
          /\ nodes'[i].level = nodes[i].level
          /\ IsPrefix(nodes[i].children, nodes'[i].children)
          /\ \A k \in (Len(nodes[i].children) + 1)..Len(nodes'[i].children) :
               nodes'[i].children[k] > Len(nodes)
          /\ nodes[i].class = "HeadingNode" =>
               /\ nodes'[i].title = nodes[i].title
               /\ nodes[i].textNode # None => nodes'[i].textNode = nodes[i].textNode
          /\ nodes[i].class = "TextNode" => nodes'[i].text = nodes[i].text]_vars

\* C17 witness: a text line was added to the text tree of a heading that
\* held two lines already, one below the other.
C17_GrownTextTree ==
  /\ hist # <<>> /\ err = "" /\ Last.kind = "text"
  /\ nodes[currentHeading].textNode # None
  /\ \E b \in 1..Len(nodes) :
       /\ nodes[b].parent = nodes[currentHeading].textNode
       /\ nodes[b].children # <<>>
       /\ b < Last.new /\ nodes[b].children[1] < Last.new

\* the document parsed so far is the example document
ExampleParsed == [i \in 1..Len(hist) |-> hist[i].line] = ExampleDoc

\* a span of plain text
Plain(text) == [text |-> text, bold |-> FALSE, italic |-> FALSE]

\* the headings Intro and Sub of the example, the bullet line of Intro and
\* the first line of Sub: Intro has level 1, Sub is its child of level 2;
\* Intro's text tree holds one line, a level-1 bullet with the spans Hi
\* (bold) and ' there'; the first line of Sub's text tree is a level-1 plain
\* line with the one span 'plain line'
IntroAndSub ==
  /\ err = ""
  /\ Len(getHeadings(0)) = 2
  /\ LET intro == getHeadings(0)[1]
         sub   == getHeadings(0)[2]
     IN  /\ nodes[intro].title = <<"I", "n", "t", "r", "o">>
         /\ nodes[intro].level = 1
         /\ nodes[intro].parent = root
         /\ nodes[sub].title = <<"S", "u", "b">>
         /\ nodes[sub].level = 2
         /\ nodes[sub].parent = intro
         /\ Len(getTextLines(nodes, intro)) = 1
         /\ LET bullet == getTextLines(nodes, intro)[1]
            IN  /\ nodes[bullet].level = 1
                /\ nodes[bullet].parent = nodes[intro].textNode
                /\ nodes[bullet].text =
                     <<[text |-> <<"H", "i">>, bold |-> TRUE, italic |-> FALSE],
                       Plain(<<" ", "t", "h", "e", "r", "e">>)>>
         /\ Len(getTextLines(nodes, sub)) >= 1
         /\ LET line == getTextLines(nodes, sub)[1]
            IN  /\ nodes[line].level = 1
                /\ nodes[line].parent = nodes[sub].textNode
                /\ nodes[line].text =
                     <<Plain(<<"p", "l", "a", "i", "n", " ", "l", "i", "n", "e">>)>>

\* C18 (as claimed): the example document gives the headings Intro and Sub
\* with their lines, and the text tree of Sub holds exactly one line.
C18_SubHoldsOneLine ==
  ExampleParsed =>
    /\ IntroAndSub
    /\ Len(getTextLines(nodes, getHeadings(0)[2])) = 1

\* C18 (amended): the example document gives the headings Intro and Sub with
\* their lines, and the text tree of Sub holds two lines: the plain line and,
\* for the empty string after the last newline, a level-1 line without spans.
C18_SubHoldsTwoLines ==
  ExampleParsed =>
    /\ IntroAndSub
    /\ Len(getTextLines(nodes, getHeadings(0)[2])) = 2
    /\ LET sub   == getHeadings(0)[2]
           empty == getTextLines(nodes, sub)[2]
       IN  /\ nodes[empty].level = 1
           /\ nodes[empty].parent = nodes[sub].textNode
           /\ nodes[empty].text = <<>>

\* C18 witness: the example document was parsed to its last line, into a
\* root, two headings, two text roots and three lines.
C18_ExampleDone ==
  /\ ExampleParsed
  /\ Len(nodes) = 8
  /\ Last.line = <<>> /\ Last.new = 8

RECURSIVE Ascending(_)
\* the numbers of a set, from the smallest up
Ascending(S) ==
  IF S = {} THEN <<>> ELSE <<SetMin(S)>> \o Ascending(S \ {SetMin(S)})

\* the nodes the lines at the places I made, in the order of the lines
MadeBy(I) == [k \in 1..Cardinality(I) |-> hist[Ascending(I)[k]].new]

\* the text lines parsed under the heading that line i declared: those after
\* line i up to the next line that declares a heading
TextEntriesOf(i) ==
  {j \in (i + 1)..Len(hist) :
     /\ hist[j].kind = "text" /\ hist[j].new # None
     /\ \A k \in Declarations : ~(i < k /\ k < j)}

\* n lies on the rightmost path of its tree: n and each of its ancestors
\* is the last child of its parent
OnRightmostPath(n) ==
  \A a \in Ancestors(nodes, n) \cup {n} :
    nodes[a].parent # None => IsLastChild(nodes, a)

\* C19: getHeadings(0) yields the headings in the order of the lines that
\* declared them, and getTextLines() of each heading yields the nodes of the
\* text lines parsed under it, in the order of those lines; the current
\* heading and the text cursor lie on the rightmost path of their trees.
C19_DocumentOrder ==
  /\ getHeadings(0) = MadeBy(Declarations)
  /\ \A i \in Declarations :
       getTextLines(nodes, hist[i].new) = MadeBy(TextEntriesOf(i))
  /\ OnRightmostPath(currentHeading)
  /\ currentText # None => OnRightmostPath(currentText)

\* C19 witness: two headings, the first with a bullet of level 1, a bullet
\* below it and, after a walk up, a second bullet of level 1.
C19_BulletsUpAndDown ==
  \E i \in Declarations :
    /\ Len(getTextLines(nodes, hist[i].new)) = 3
    /\ LET lines == getTextLines(nodes, hist[i].new)
       IN  /\ nodes[lines[2]].parent = lines[1]
           /\ nodes[lines[3]].parent = nodes[lines[1]].parent
           /\ IsBulletLine(hist[i + 3].line)

\* the pairs of heading lines that follow each other, with text lines or
\* nothing between them, and have the same number of leading '='
SameCountNeighbours ==
  {p \in Declarations \X Declarations :
     /\ p[1] < p[2]
     /\ \A k \in Declarations : ~(p[1] < k /\ k < p[2])
     /\ EqCount(hist[p[1]].line) = EqCount(hist[p[2]].line)}

\* C20 (as claimed): the headings of two heading lines that follow each other
\* with the same number of '=' have the same parent.
C20_SameCountSiblings ==
  \A p \in SameCountNeighbours :
    nodes[hist[p[2]].new].parent = nodes[hist[p[1]].new].parent

\* C20 (amended): the headings of two heading lines that follow each other
\* with the same number of '=' have the same parent when the first heading
\* was stored with that number as its level; when the first was stored with a
\* lower level, the second is its child, one level below it.
C20_SiblingsUnlessClamped ==
  \A p \in SameCountNeighbours :
    LET first  == hist[p[1]].new
        second == hist[p[2]].new
    IN  IF nodes[first].level = EqCount(hist[p[1]].line)
        THEN /\ nodes[second].parent = nodes[first].parent
             /\ nodes[second].level = nodes[first].level
        ELSE /\ nodes[first].level < EqCount(hist[p[1]].line)
             /\ nodes[second].parent = first
             /\ nodes[second].level = nodes[first].level + 1

\* C20 witness: of three headings declared with the same number of '=', a
\* text line after the first, the second is a child of the first and the
\* third a sibling of the second.
C20_NestedThenSibling ==
  \E p \in SameCountNeighbours : \E q \in SameCountNeighbours :
    /\ p[2] = q[1]
    /\ p[2] > p[1] + 1
    /\ nodes[hist[p[2]].new].parent = hist[p[1]].new
    /\ nodes[hist[q[2]].new].parent = hist[p[1]].new
====
